---- MODULE Spec2Model ----
(***************************************************************************)
(* Model of src/representations/number.rs: the byte encoding of rational   *)
(* numbers (RationalNumberWriter for i64 and u64, RationalNumberReader for *)
(* [u8]).                                                                  *)
(*                                                                         *)
(* A 64-bit integer is its bit pattern: a sequence of 8 bytes, least       *)
(* significant first.  The same pattern is read as u64 or as i64 (two's    *)
(* complement), as the code's `as` casts do.  A byte is a number 0..255.   *)
(***************************************************************************)
EXTENDS Integers, Sequences, FiniteSets, TLC

VARIABLES overflow_checks, num, den, dest, log, fixed, ret

vars == <<overflow_checks, num, den, dest, log, fixed, ret>>

-----------------------------------------------------------------------------
(* Bounds of the model. *)

\* The magnitudes 0..MaxSmall are inputs.
MaxSmall == 5
\* Below each class maximum B the inputs B, B-1, ..., B-MaxDelta are taken.
MaxDelta == 1
\* Number of values appended to one buffer.
MaxValues == 2
\* A fixed buffer is up to MaxSlack bytes longer than the encoding needs.
MaxSlack == 1
\* Width-class codes 0..MaxCode are tried in the discriminant of a raw buffer.
MaxCode == 5

-----------------------------------------------------------------------------
(* The format constants. *)

U8_NUM == 1
U16_NUM == 2
U32_NUM == 3
U64_NUM == 4
U8_DEN == 16
U16_DEN == 32
U32_DEN == 48
U64_DEN == 64
NUM_MASK == 15
DEN_MASK == 112
SIGN == 128

-----------------------------------------------------------------------------
(* Bytes and 64-bit words. *)

RECURSIVE BitAnd(_, _)
BitAnd(a, b) ==
    IF a = 0 \/ b = 0 THEN 0
    ELSE (a % 2) * (b % 2) + 2 * BitAnd(a \div 2, b \div 2)

RECURSIVE BitOr(_, _)
BitOr(a, b) ==
    IF a = 0 THEN b
    ELSE IF b = 0 THEN a
    ELSE (IF a % 2 = 1 \/ b % 2 = 1 THEN 1 ELSE 0) + 2 * BitOr(a \div 2, b \div 2)

\* `x >> 4` on a byte.
Shr4(a) == a \div 16

\* An unsigned value of 1, 2 or 4 bytes widened to 64 bits (`v as i64`,
\* `u8::MAX as u64`): the high bytes are zero.
Zext(bytes) == bytes \o [i \in 1..(8 - Len(bytes)) |-> 0]

\* `x as u8`, `x as u16`, `x as u32` of a 64-bit word: the low bytes.
as_u8(x) == x[1]
as_u16(x) == SubSeq(x, 1, 2)
as_u32(x) == SubSeq(x, 1, 4)

U8_MAX == Zext(<<255>>)
U16_MAX == Zext(<<255, 255>>)
U32_MAX == Zext(<<255, 255, 255, 255>>)
I64_MAX == <<255, 255, 255, 255, 255, 255, 255, 127>>
I64_MIN == <<0, 0, 0, 0, 0, 0, 0, 128>>
ZERO == Zext(<<0>>)
ONE == Zext(<<1>>)

\* a <= b on u64: the comparison a writer would make with `<=` for `<`.
LeU64(a, b) ==
    \/ a = b
    \/ \E i \in 1..8 : a[i] < b[i] /\ \A j \in (i + 1)..8 : a[j] = b[j]

\* a < b on u64: decided by the most significant byte where they differ.
LtU64(a, b) ==
    \E i \in 1..8 : a[i] < b[i] /\ \A j \in (i + 1)..8 : a[j] = b[j]

\* x < 0 on i64.
IsNegI64(x) == x[8] >= 128

\* Wrapping negation of an i64: invert the bits and add one.
NegWrap(x) ==
    LET inv == [i \in 1..8 |-> 255 - x[i]]
    IN  [i \in 1..8 |->
            IF \A j \in 1..(i - 1) : inv[j] = 255
            THEN (inv[i] + 1) % 256
            ELSE inv[i]]

\* i64::abs.  The absolute value of i64::MIN overflows: a build with overflow
\* checks panics, a build without returns i64::MIN.
abs(x, checks) ==
    IF ~IsNegI64(x) THEN [panic |-> "none", val |-> x]
    ELSE IF x = I64_MIN /\ checks THEN [panic |-> "overflow", val |-> x]
    ELSE [panic |-> "none", val |-> NegWrap(x)]

\* Unary minus on i64, with the same overflow at i64::MIN.
neg(x, checks) ==
    IF x = I64_MIN /\ checks THEN [panic |-> "overflow", val |-> x]
    ELSE [panic |-> "none", val |-> NegWrap(x)]

-----------------------------------------------------------------------------
(* BufMut for Vec<u8>: every put appends. *)

put_u8(buf, b) == Append(buf, b)
put_u16_le(buf, v) == buf \o v
put_u32_le(buf, v) == buf \o v
put_u64_le(buf, v) == buf \o v

\* dest[p] |= mask, p counted from 0.
or_at(buf, p, mask) == [buf EXCEPT ![p + 1] = BitOr(@, mask)]

-----------------------------------------------------------------------------
(* impl RationalNumberWriter for u64 *)

u64_write_num(self, buf) ==
    IF LtU64(self, U8_MAX) THEN put_u8(put_u8(buf, U8_NUM), as_u8(self))
    ELSE IF LtU64(self, U16_MAX) THEN put_u16_le(put_u8(buf, U16_NUM), as_u16(self))
    ELSE IF LtU64(self, U32_MAX) THEN put_u32_le(put_u8(buf, U32_NUM), as_u32(self))
    ELSE put_u64_le(put_u8(buf, U64_NUM), self)

\* The numerator half with `<=` written for `<` in the class comparisons.
u64_write_frac_num_le(self, buf) ==
    IF LeU64(self, U8_MAX) THEN put_u8(put_u8(buf, U8_NUM), as_u8(self))
    ELSE IF LeU64(self, U16_MAX) THEN put_u16_le(put_u8(buf, U16_NUM), as_u16(self))
    ELSE IF LeU64(self, U32_MAX) THEN put_u32_le(put_u8(buf, U32_NUM), as_u32(self))
    ELSE put_u64_le(put_u8(buf, U64_NUM), self)

\* write_frac, first half: the discriminant and the numerator.
u64_write_frac_num(self, buf) ==
    IF LtU64(self, U8_MAX) THEN put_u8(put_u8(buf, U8_NUM), as_u8(self))
    ELSE IF LtU64(self, U16_MAX) THEN put_u16_le(put_u8(buf, U16_NUM), as_u16(self))
    ELSE IF LtU64(self, U32_MAX) THEN put_u32_le(put_u8(buf, U32_NUM), as_u32(self))
    ELSE put_u64_le(put_u8(buf, U64_NUM), self)

\* The denominator half without the `den == 1` case: every denominator is
\* written.
u64_write_frac_den_always(d, p, buf) ==
    IF LtU64(d, U8_MAX) THEN put_u8(or_at(buf, p, U8_DEN), as_u8(d))
    ELSE IF LtU64(d, U16_MAX) THEN put_u16_le(or_at(buf, p, U16_DEN), as_u16(d))
    ELSE IF LtU64(d, U32_MAX)
         THEN put_u32_le(put_u8(or_at(buf, p, U32_DEN), 3), as_u32(d))
    ELSE put_u64_le(or_at(buf, p, U64_DEN), d)

\* write_frac, second half: the denominator; p is the discriminant's index.
u64_write_frac_den(d, p, buf) ==
    IF d = ONE THEN buf
    ELSE IF LtU64(d, U8_MAX) THEN put_u8(or_at(buf, p, U8_DEN), as_u8(d))
    ELSE IF LtU64(d, U16_MAX) THEN put_u16_le(or_at(buf, p, U16_DEN), as_u16(d))
    ELSE IF LtU64(d, U32_MAX)
         THEN put_u32_le(put_u8(or_at(buf, p, U32_DEN), 3), as_u32(d))
    ELSE put_u64_le(or_at(buf, p, U64_DEN), d)

u64_write_frac(self, d, buf) ==
    LET p == Len(buf)
    IN  u64_write_frac_den(d, p, u64_write_frac_num(self, buf))

-----------------------------------------------------------------------------
(* impl RationalNumberWriter for i64.  A writer returns the buffer it leaves *)
(* and whether it panicked.                                                *)

i64_write_num(self, buf, checks) ==
    LET p == Len(buf)
        a == abs(self, checks)
        n == a.val
        d1 == IF LtU64(n, U8_MAX) THEN put_u8(put_u8(buf, U8_NUM), as_u8(self))
              ELSE IF LtU64(n, U16_MAX)
                   THEN put_u16_le(put_u8(buf, U16_NUM), as_u16(n))
              ELSE IF LtU64(n, U32_MAX)
                   THEN put_u32_le(put_u8(buf, U32_NUM), as_u32(n))
              ELSE put_u64_le(put_u8(buf, U64_NUM), n)
    IN  IF a.panic # "none" THEN [panic |-> a.panic, dest |-> buf]
        ELSE IF IsNegI64(self) THEN [panic |-> "none", dest |-> or_at(d1, p, SIGN)]
        ELSE [panic |-> "none", dest |-> d1]

i64_write_frac(self, d, buf, checks) ==
    LET p == Len(buf)
        an == abs(self, checks)
        ad == abs(d, checks)
        d1 == u64_write_frac(an.val, ad.val, buf)
    IN  IF an.panic # "none" THEN [panic |-> an.panic, dest |-> buf]
        ELSE IF ad.panic # "none" THEN [panic |-> ad.panic, dest |-> buf]
        ELSE IF \/ ~IsNegI64(self) /\ IsNegI64(d)
                \/ IsNegI64(self) /\ ~IsNegI64(d)
             THEN [panic |-> "none", dest |-> or_at(d1, p, SIGN)]
        ELSE [panic |-> "none", dest |-> d1]

-----------------------------------------------------------------------------
(* BufMut for &mut [u8].  The slice is a view of the caller's array mem     *)
(* that starts off bytes into it; a put writes at the view's start and     *)
(* moves the start forward, and panics when the view is too short.         *)

slice_len(s) == Len(s.mem) - s.off

slice_put(s, bytes) ==
    IF s.panic # "none" THEN s
    ELSE IF Len(bytes) > slice_len(s) THEN [s EXCEPT !.panic = "overflow_buffer"]
    ELSE [s EXCEPT !.mem = [i \in 1..Len(s.mem) |->
                               IF i > s.off /\ i <= s.off + Len(bytes)
                               THEN bytes[i - s.off]
                               ELSE s.mem[i]],
                   !.off = s.off + Len(bytes)]

\* dest[p] |= mask on the view: index p of the view, bounds-checked.
slice_or_at(s, p, mask) ==
    IF s.panic # "none" THEN s
    ELSE IF p >= slice_len(s) THEN [s EXCEPT !.panic = "index_out_of_bounds"]
    ELSE [s EXCEPT !.mem[s.off + p + 1] = BitOr(@, mask)]

u64_write_frac_fixed(self, d, mem) ==
    LET s0 == [mem |-> mem, off |-> 0, panic |-> "none"]
        p == slice_len(s0)
        s1 == IF LtU64(self, U8_MAX)
              THEN slice_put(slice_put(s0, <<1>>), <<as_u8(self)>>)
              ELSE IF LtU64(self, U16_MAX)
                   THEN slice_put(slice_put(s0, <<2>>), as_u16(self))
              ELSE IF LtU64(self, U32_MAX)
                   THEN slice_put(slice_put(s0, <<3>>), as_u32(self))
              ELSE slice_put(slice_put(s0, <<4>>), self)
    IN  IF d = ONE THEN s1
        ELSE IF LtU64(d, U8_MAX)
             THEN slice_put(slice_or_at(s1, p, 16), <<as_u8(d)>>)
        ELSE IF LtU64(d, U16_MAX)
             THEN slice_put(slice_or_at(s1, p, 32), as_u16(d))
        ELSE IF LtU64(d, U32_MAX)
             THEN slice_put(slice_put(slice_or_at(s1, p, 48), <<3>>), as_u32(d))
        ELSE slice_put(slice_or_at(s1, p, 64), d)

\* The callee advances its own copy of the view (`mut dest`); the caller's
\* dest still views the whole array when the sign is set.
i64_write_frac_fixed(self, d, mem, checks) ==
    LET p == Len(mem)
        an == abs(self, checks)
        ad == abs(d, checks)
        s1 == u64_write_frac_fixed(an.val, ad.val, mem)
        caller == [mem |-> s1.mem, off |-> 0, panic |-> s1.panic]
    IN  IF an.panic # "none" THEN [mem |-> mem, off |-> 0, panic |-> an.panic]
        ELSE IF ad.panic # "none" THEN [mem |-> mem, off |-> 0, panic |-> ad.panic]
        ELSE IF \/ ~IsNegI64(self) /\ IsNegI64(d)
                \/ IsNegI64(self) /\ ~IsNegI64(d)
             THEN slice_or_at(caller, p, SIGN)
        ELSE caller

-----------------------------------------------------------------------------
(* impl RationalNumberReader for [u8].  Buf for &[u8]: a get reads at the   *)
(* slice's start and panics when the slice is too short.                   *)

\* Byte width read for a width-class code of the match arms 1..4.
width(code) ==
    IF code = 1 THEN 1 ELSE IF code = 2 THEN 2 ELSE IF code = 3 THEN 4 ELSE 8

skip_rational(self) ==
    IF Len(self) < 1 THEN [panic |-> "underrun", rest |-> self]
    ELSE LET var_size == self[1]
             rest1 == Tail(self)
             size == BitAnd(var_size, NUM_MASK) + Shr4(BitAnd(var_size, DEN_MASK))
         IN  IF size > Len(rest1) THEN [panic |-> "underrun", rest |-> rest1]
             ELSE [panic |-> "none", rest |-> SubSeq(rest1, size + 1, Len(rest1))]

\* One arm group of get_frac_i64: reads the magnitude of class code, or
\* reports why it cannot.
get_magnitude(code, source) ==
    IF code \notin 1..4 THEN [panic |-> "unreachable", val |-> ZERO, rest |-> source]
    ELSE IF Len(source) < width(code)
         THEN [panic |-> "underrun", val |-> ZERO, rest |-> source]
    ELSE [panic |-> "none",
          val |-> Zext(SubSeq(source, 1, width(code))),
          rest |-> SubSeq(source, width(code) + 1, Len(source))]

get_frac_i64(self, checks) ==
    IF Len(self) < 1
    THEN [panic |-> "underrun", num |-> ZERO, den |-> ZERO, rest |-> self]
    ELSE
      LET disc == self[1]
          n == get_magnitude(BitAnd(disc, NUM_MASK), Tail(self))
          dcode == Shr4(BitAnd(disc, DEN_MASK))
          d == IF dcode = 0 THEN [panic |-> "none", val |-> ONE, rest |-> n.rest]
               ELSE get_magnitude(dcode, n.rest)
          m == neg(n.val, checks)
      IN  IF n.panic # "none"
          THEN [panic |-> n.panic, num |-> ZERO, den |-> ZERO, rest |-> n.rest]
          ELSE IF d.panic # "none"
          THEN [panic |-> d.panic, num |-> ZERO, den |-> ZERO, rest |-> d.rest]
          ELSE IF BitAnd(disc, SIGN) # 0
          THEN IF m.panic # "none"
               THEN [panic |-> m.panic, num |-> ZERO, den |-> ZERO, rest |-> d.rest]
               ELSE [panic |-> "none", num |-> m.val, den |-> d.val, rest |-> d.rest]
          ELSE [panic |-> "none", num |-> n.val, den |-> d.val, rest |-> d.rest]

\* self[1] == 1 && self[2] == 1, indices counted from 0 and bounds-checked.
is_one_rat(self) ==
    IF Len(self) < 2 THEN [panic |-> "index_out_of_bounds", val |-> FALSE]
    ELSE IF self[2] # 1 THEN [panic |-> "none", val |-> FALSE]
    ELSE IF Len(self) < 3 THEN [panic |-> "index_out_of_bounds", val |-> FALSE]
    ELSE [panic |-> "none", val |-> self[3] = 1]

is_zero_rat(self) ==
    IF Len(self) < 2 THEN [panic |-> "index_out_of_bounds", val |-> FALSE]
    ELSE IF self[2] # 1 THEN [panic |-> "none", val |-> FALSE]
    ELSE IF Len(self) < 3 THEN [panic |-> "index_out_of_bounds", val |-> FALSE]
    ELSE [panic |-> "none", val |-> self[3] = 0]

-----------------------------------------------------------------------------
(* Inputs. *)

\* The inputs are listed in the order they are tried.
SmallList == [i \in 1..MaxSmall |-> Zext(<<i>>)]

\* The class maximum B (low byte 255) and the values just below it.
BelowList(B) == [i \in 1..(MaxDelta + 1) |-> [B EXCEPT ![1] = 256 - i]]

\* 300 = 0x012C.
ThreeHundred == Zext(<<44, 1>>)

MagnitudeList ==
    SmallList \o BelowList(U8_MAX) \o BelowList(U16_MAX) \o BelowList(U32_MAX)
              \o BelowList(I64_MAX) \o <<ThreeHundred>>

\* Bit patterns given to the writers: read as i64 they are the magnitudes,
\* their negatives, zero and i64::MIN; read as u64 the negatives are values
\* near 2^64.
InputList ==
    MagnitudeList
        \o [i \in 1..Len(MagnitudeList) |-> NegWrap(MagnitudeList[i])]
        \o <<ZERO, I64_MIN>>

\* Words whose bytes fill the fields of a raw buffer.
RawWords == {ONE, I64_MIN, NegWrap(ONE), <<1, 2, 3, 4, 5, 6, 7, 8>>}

Discriminants ==
    {s * SIGN + d * 16 + n : s \in 0..1, d \in 0..MaxCode, n \in 0..MaxCode}

FieldLens == {0, 1, 2, 4, 8}

RawBuffers ==
    {<<disc>> \o SubSeq(x, 1, a) \o SubSeq(y, 1, b) :
        disc \in Discriminants, x \in RawWords, y \in RawWords,
        a \in FieldLens, b \in FieldLens}

Zeros(n) == [i \in 1..n |-> 0]

-----------------------------------------------------------------------------
(* State.                                                                   *)
(*   overflow_checks  the build: whether integer overflow panics           *)
(*   num, den         the arguments handed to the writers                  *)
(*   dest             the growable buffer, or the slice given to a reader  *)
(*   log              one entry per value in dest: the call that wrote it, *)
(*                    the index p of its discriminant, its length n        *)
(*   fixed            the fixed buffer and what write_frac_fixed did to it *)
(*   ret              what the last call returned                          *)
(***************************************************************************)

NoRet == [op |-> "none"]
NoFixed(n) == [op |-> "none", panic |-> "none", mem |-> Zeros(n)]

Init ==
    /\ overflow_checks \in BOOLEAN
    /\ \E i \in 1..Len(InputList) : num = InputList[i]
    /\ \E j \in 1..Len(InputList) : den = InputList[j]
    /\ dest = <<>>
    /\ log = <<>>
    /\ fixed = NoFixed(0)
    /\ ret = NoRet

\* A writer call on the growable buffer: r is what the writer returned.
Wrote(op, r) ==
    /\ dest' = r.dest
    /\ log' = IF r.panic = "none"
              THEN Append(log, [op |-> op, p |-> Len(dest),
                                n |-> Len(r.dest) - Len(dest)])
              ELSE log
    /\ ret' = [op |-> op, panic |-> r.panic]
    /\ UNCHANGED <<overflow_checks, num, den, fixed>>

WriteNum ==
    /\ Len(log) < MaxValues
    /\ Wrote("write_num", i64_write_num(num, dest, overflow_checks))

WriteFrac ==
    /\ Len(log) < MaxValues
    /\ Wrote("write_frac", i64_write_frac(num, den, dest, overflow_checks))

WriteNumU64 ==
    /\ Len(log) < MaxValues
    /\ Wrote("u64_write_num", [panic |-> "none", dest |-> u64_write_num(num, dest)])

WriteFracU64 ==
    /\ Len(log) < MaxValues
    /\ Wrote("u64_write_frac",
             [panic |-> "none", dest |-> u64_write_frac(num, den, dest)])

\* The slice that starts at the discriminant of value k.
SliceAt(k) == SubSeq(dest, log[k].p + 1, Len(dest))

Read(r) ==
    /\ ret' = r
    /\ UNCHANGED <<overflow_checks, num, den, dest, log, fixed>>

GetFracI64(k) ==
    LET r == get_frac_i64(SliceAt(k), overflow_checks)
    IN  Read([op |-> "get_frac_i64", k |-> k, panic |-> r.panic,
              num |-> r.num, den |-> r.den, rest |-> r.rest])

SkipRational(k) ==
    LET r == skip_rational(SliceAt(k))
    IN  Read([op |-> "skip_rational", k |-> k, panic |-> r.panic, rest |-> r.rest])

IsZeroRat(k) ==
    LET r == is_zero_rat(SliceAt(k))
    IN  Read([op |-> "is_zero_rat", k |-> k, panic |-> r.panic, val |-> r.val])

IsOneRat(k) ==
    LET r == is_one_rat(SliceAt(k))
    IN  Read([op |-> "is_one_rat", k |-> k, panic |-> r.panic, val |-> r.val])

WriteFracFixed ==
    /\ fixed.op = "none"
    /\ LET r == i64_write_frac_fixed(num, den, fixed.mem, overflow_checks)
       IN  fixed' = [op |-> "write_frac_fixed", panic |-> r.panic, mem |-> r.mem]
    /\ UNCHANGED <<overflow_checks, num, den, dest, log, ret>>

WriteFracFixedU64 ==
    /\ fixed.op = "none"
    /\ LET r == u64_write_frac_fixed(num, den, fixed.mem)
       IN  fixed' = [op |-> "u64_write_frac_fixed", panic |-> r.panic, mem |-> r.mem]
    /\ UNCHANGED <<overflow_checks, num, den, dest, log, ret>>

\* Writers and readers of one buffer.
Next ==
    \/ WriteNum
    \/ WriteFrac
    \/ WriteNumU64
    \/ WriteFracU64
    \/ \E k \in 1..Len(log) : GetFracI64(k)
    \/ \E k \in 1..Len(log) : SkipRational(k)
    \/ \E k \in 1..Len(log) : IsZeroRat(k)
    \/ \E k \in 1..Len(log) : IsOneRat(k)

Spec == Init /\ [][Next]_vars

\* The writers alone.
NextEncode ==
    \/ WriteNum
    \/ WriteFrac
    \/ WriteNumU64
    \/ WriteFracU64

SpecEncode == Init /\ [][NextEncode]_vars

\* The readers on an arbitrary byte slice.
InitRaw ==
    /\ overflow_checks \in BOOLEAN
    /\ num = ZERO
    /\ den = ZERO
    /\ dest \in RawBuffers
    /\ log = <<[op |-> "raw", p |-> 0, n |-> Len(dest)]>>
    /\ fixed = NoFixed(0)
    /\ ret = NoRet

NextRaw ==
    \/ GetFracI64(1)
    \/ SkipRational(1)
    \/ IsZeroRat(1)
    \/ IsOneRat(1)

SpecRaw == InitRaw /\ [][NextRaw]_vars

\* Bytes write_frac appends for (n, d) in a build without overflow checks.
EncodedLen(n, d) == Len(i64_write_frac(n, d, <<>>, FALSE).dest)

\* The fixed-buffer writers beside the growable one.
InitFixed ==
    /\ overflow_checks \in BOOLEAN
    /\ \E i \in 1..Len(InputList) : num = InputList[i]
    /\ \E j \in 1..Len(InputList) : den = InputList[j]
    /\ dest = <<>>
    /\ log = <<>>
    /\ \E slack \in 0..(MaxSlack + 1) :
          fixed = NoFixed(EncodedLen(num, den) + slack - 1)
    /\ ret = NoRet

NextFixed ==
    \/ WriteFracFixed
    \/ WriteFracFixedU64
    \/ WriteFrac

SpecFixed == InitFixed /\ [][NextFixed]_vars

-----------------------------------------------------------------------------
(* What the format description says, stated apart from the writers.         *)

\* a > m on 64-bit magnitudes, from the most significant byte down.
RECURSIVE GreaterFrom(_, _, _)
GreaterFrom(a, m, i) ==
    IF i = 0 THEN FALSE
    ELSE IF a[i] # m[i] THEN a[i] > m[i]
    ELSE GreaterFrom(a, m, i - 1)

Exceeds(a, m) == GreaterFrom(a, m, 8)

\* Class maxima 255, 65535, 2^32-1; class 4 takes the rest.
ClassMax(c) ==
    IF c = 1 THEN Zext(<<255>>)
    ELSE IF c = 2 THEN Zext(<<255, 255>>)
    ELSE Zext(<<255, 255, 255, 255>>)

\* The smallest class whose maximum is strictly greater than m.
SmallestClass(m) ==
    CHOOSE c \in 1..4 :
        /\ c = 4 \/ Exceeds(ClassMax(c), m)
        /\ \A e \in 1..(c - 1) : ~Exceeds(ClassMax(e), m)

\* Byte width of a class: 1, 2, 4, 8.
ClassWidth(c) == CASE c = 1 -> 1 [] c = 2 -> 2 [] c = 3 -> 4 [] c = 4 -> 8 [] OTHER -> 0

\* The magnitude of an i64 as a u64.
Mag(x) == IF IsNegI64(x) THEN NegWrap(x) ELSE x

NumClassOf(disc) == disc % 16
DenClassOf(disc) == (disc \div 16) % 8

\* The last value written, and the bytes appended for it.
Last == log[Len(log)]
Appended == SubSeq(dest, Last.p + 1, Last.p + Last.n)
Panics == {"overflow", "underrun", "unreachable", "index_out_of_bounds",
           "overflow_buffer"}

-----------------------------------------------------------------------------
(* C1.  Round trip: write_frac(num, den) with den # 0 on an empty buffer,   *)
(* then get_frac_i64 on the bytes, returns the numerator num with the sign *)
(* of den folded onto it, the denominator |den|, and an empty rest.        *)
C1_RoundTrip ==
    (/\ ret.op = "get_frac_i64"
     /\ Len(log) = 1
     /\ log[1].op = "write_frac"
     /\ den # ZERO)
    => /\ ret.panic = "none"
       /\ ret.num = (IF IsNegI64(den) THEN NegWrap(num) ELSE num)
       /\ ret.den = Mag(den)
       /\ ret.rest = <<>>

(* C2.  Skip consistency: skip_rational on the slice that starts at value   *)
(* k returns the slice that starts at value k+1 (empty after the last): it *)
(* advances by exactly the bytes the writer wrote for value k.             *)
C2_SkipLandsOnNext ==
    ret.op = "skip_rational"
    => /\ ret.panic = "none"
       /\ ret.rest = SubSeq(dest, log[ret.k].p + log[ret.k].n + 1, Len(dest))

(* C3.  write_num(value) appends one discriminant byte (numerator class of  *)
(* |value|, denominator class 0, sign bit set iff value < 0) and then the  *)
(* little-endian bytes of |value| in that class's width; write_num(-5)     *)
(* appends [0x81, 0x05] and write_num(300) appends [0x02, 0x2C, 0x01].     *)
C3_WriteNumBytes ==
    ret.op = "write_num"
    => /\ ret.panic = "none"
       /\ LET c == SmallestClass(Mag(num))
              s == IF IsNegI64(num) THEN 128 ELSE 0
          IN  Appended = <<s + c>> \o SubSeq(Mag(num), 1, ClassWidth(c))
       /\ num = NegWrap(Zext(<<5>>)) => Appended = <<129, 5>>
       /\ num = ThreeHundred => Appended = <<2, 44, 1>>

\* The classes the boundary values are said to get.
BoundaryClass(m) ==
    CASE m = Zext(<<254>>) -> 1
      [] m = Zext(<<255>>) -> 2
      [] m = Zext(<<254, 255>>) -> 2
      [] m = Zext(<<255, 255>>) -> 3
      [] m = Zext(<<254, 255, 255, 255>>) -> 3
      [] m = Zext(<<255, 255, 255, 255>>) -> 4
      [] OTHER -> SmallestClass(m)

(* C4.  Width-class selection in write_frac: the class written for the      *)
(* numerator magnitude m, and for the denominator magnitude m when m # 1,  *)
(* is the smallest class whose maximum (255, 65535, 2^32-1; class 4 for the *)
(* rest) is strictly greater than m: 254 gets class 1 and 255 class 2,     *)
(* 65534 class 2 and 65535 class 3, 2^32-2 class 3 and 2^32-1 class 4.     *)
C4_WidthClass ==
    ret.op = "u64_write_frac"
    => /\ NumClassOf(Appended[1]) = SmallestClass(num)
       /\ NumClassOf(Appended[1]) = BoundaryClass(num)
       /\ den # ONE => /\ DenClassOf(Appended[1]) = SmallestClass(den)
                       /\ DenClassOf(Appended[1]) = BoundaryClass(den)

\* write_frac(255, 2^32-2) has been called: classes 2 and 3.
C4_Witness ==
    /\ ret.op = "u64_write_frac"
    /\ num = Zext(<<255>>)
    /\ den = Zext(<<254, 255, 255, 255>>)
    /\ NumClassOf(Appended[1]) = 2
    /\ DenClassOf(Appended[1]) = 3

C6_SignBit ==
    [][WriteFrac =>
         LET u == u64_write_frac(Mag(num), Mag(den), <<>>)
             s == IF IsNegI64(num) # IsNegI64(den) THEN 128 ELSE 0
         IN  dest' = dest \o [u EXCEPT ![1] = (u[1] % 128) + s]]_vars

\* What holds of the sign step: the same, for the calls in which abs() does
\* not overflow (neither argument is i64::MIN, or the build does not check).
SignBitUnlessOverflow ==
    [][(WriteFrac /\ ret'.panic = "none") =>
         LET u == u64_write_frac(Mag(num), Mag(den), <<>>)
             s == IF IsNegI64(num) # IsNegI64(den) THEN 128 ELSE 0
         IN  dest' = dest \o [u EXCEPT ![1] = (u[1] % 128) + s]]_vars

\* The same buffer with bit 7 of the discriminant flipped.
FlipSign(buf) == [buf EXCEPT ![1] = IF @ >= 128 THEN @ - 128 ELSE @ + 128]

(* C7.  For every buffer get_frac_i64 decodes, the denominator returned is  *)
(* non-negative and is the same whether bit 7 of the discriminant is set   *)
(* or clear.                                                               *)
C7_DenominatorNonNegative ==
    (ret.op = "get_frac_i64" /\ ret.panic = "none")
    => /\ ~IsNegI64(ret.den)
       /\ LET other == get_frac_i64(FlipSign(dest), overflow_checks)
          IN  other.panic = "none" => other.den = ret.den

(* C8.  Format errors are recoverable: on a discriminant with numerator     *)
(* class 0, or a numerator or denominator class above 4, get_frac_i64      *)
(* returns an error to its caller and does not panic.                      *)
C8_FormatErrorReturned ==
    (/\ ret.op = "get_frac_i64"
     /\ \/ NumClassOf(dest[1]) = 0
        \/ NumClassOf(dest[1]) > 4
        \/ DenClassOf(dest[1]) > 4)
    => ret.panic \notin Panics

(* C9.  Fast paths agree with a full decode: for a value written at the     *)
(* start of a buffer of at least 3 bytes, is_zero_rat is true iff          *)
(* get_frac_i64 returns numerator 0, and is_one_rat is true iff it returns *)
(* (1, 1).  Stated for rationals: den # 0.                                 *)
C9_FastPathsAgree ==
    (/\ ret.op \in {"is_zero_rat", "is_one_rat"}
     /\ ret.k = 1
     /\ log[1].op \in {"write_num", "write_frac"}
     /\ den # ZERO
     /\ Len(dest) >= 3)
    => LET g == get_frac_i64(dest, overflow_checks)
       IN  /\ ret.panic = "none"
           /\ ret.op = "is_zero_rat"
                => (ret.val <=> (g.panic = "none" /\ g.num = ZERO))
           /\ ret.op = "is_one_rat"
                => (ret.val <=> (g.panic = "none" /\ g.num = ONE /\ g.den = ONE))

(* C10.  The fixed-buffer path equals the growable path: for a fixed buffer *)
(* at least as long as the bytes write_frac(num, den) appends,             *)
(* write_frac_fixed(num, den, dest) completes without an out-of-bounds     *)
(* access and leaves those leading bytes equal to what write_frac appends  *)
(* to an empty buffer.  Stated for rationals: den # 0.                     *)
C10_FixedEqualsGrowable ==
    (/\ fixed.op = "write_frac_fixed"
     /\ den # ZERO
     /\ Len(log) >= 1
     /\ Len(fixed.mem) >= log[1].n)
    => /\ fixed.panic = "none"
       /\ SubSeq(fixed.mem, 1, log[1].n) = SubSeq(dest, 1, log[1].n)

====
